---------------------------- MODULE Spec2Model ----------------------------
(***************************************************************************)
(* Model of the statistics engine of src/app.py:                           *)
(*   calculate_descriptive_stats (prevalence, concern level, ranking) and  *)
(*   create_cross_tabulation (contingency table, chi-square, Cramer's V).  *)
(*                                                                         *)
(* A DataFrame is a sequence of columns in df.columns order; a column is   *)
(* its name and its values, one per respondent row.  A column name is the  *)
(* sequence of its '_'-separated tokens ("Q9_HIV_Testing" is               *)
(* <<"Q9","HIV","Testing">>).  A number the code computes as a float       *)
(* quotient is kept as the exact fraction [num |-> n, den |-> d], d > 0.   *)
(***************************************************************************)
EXTENDS Integers, Sequences, FiniteSets, TLC

VARIABLES df, indicator_set, stats_results, outcome_var, independent_var,
          xt_result, metrics, pc, frames, filtered

vars == <<df, indicator_set, stats_results, outcome_var, independent_var,
          xt_result, metrics, pc, frames, filtered>>

\* ------------------------------------------------------------------------
\* Bounds of the model
\* ------------------------------------------------------------------------
\* Respondent rows of a dataset given to calculate_descriptive_stats.
NumRows == 5

\* Respondent rows of a dataset given to create_cross_tabulation.
CrossTabRows == 4
ScenarioRows == 10
EngineRows == 3
ConcurrentRows == 2
FilterRows == 3

\* ------------------------------------------------------------------------
\* Values and columns
\* ------------------------------------------------------------------------
\* A cell of a column is <<v>> when the respondent answered v, and NA when
\* the answer is missing (NaN / None).
NA == <<>>

\* The answer held by a cell that is not missing.
Val(cell) == cell[1]

\* Python's None: "no result" of create_cross_tabulation and an unset
\* statistical field.  A value that may be None is None or <<value>>.
None == <<>>

\* The values a binary column holds, in sort order.
BinaryValues == <<0, 1>>

\* Column names of the generated survey that the model draws from.
Progress == <<"Progress">>
Q2_Professional_Role == <<"Q2", "Professional", "Role">>
Q3_Setting_Ryan_White == <<"Q3", "Setting", "Ryan", "White">>
Q9_HIV_Testing == <<"Q9", "HIV", "Testing">>
Q9_HIV_Treatment == <<"Q9", "HIV", "Treatment">>
Q9_No_disruptions == <<"Q9", "No", "disruptions">>
Q10_Pop_Transgender == <<"Q10", "Pop", "Transgender">>
Q10_Pop_Older_Adults == <<"Q10", "Pop", "Older", "Adults">>
Q13_Concern_Medicaid_Cuts == <<"Q13", "Concern", "Medicaid", "Cuts">>
Q18_Federal_Guidelines_Use == <<"Q18", "Federal", "Guidelines", "Use">>
Q19_Guidelines_Access_Delays == <<"Q19", "Guidelines", "Access", "Delays">>
Q23_Housing_Instability == <<"Q23", "Housing", "Instability">>
Q27_Trans_Barrier_HIV_Testing == <<"Q27", "Trans", "Barrier", "HIV", "Testing">>
Q27_Trans_Barrier_Mental_Health == <<"Q27", "Trans", "Barrier", "Mental", "Health">>

\* Some labels of the categorical columns, in alphabetical order.
HousingLabels == <<"Almost always", "Frequently", "Never">>
ConcernLabels == <<"Extremely concerned", "Slightly concerned">>
GuidelinesLabels == <<"Always", "Never">>
RoleLabels == <<"Case Manager", "Pharmacist", "Registered Nurse (RN)">>

\* str.startswith(prefix) on token sequences.
StartsWith(col, prefix) ==
    /\ Len(prefix) <= Len(col)
    /\ SubSeq(col, 1, Len(prefix)) = prefix

\* col.startswith((p1, p2, ...)): any of the prefixes.
StartsWithAny(col, prefixes) ==
    \E p \in prefixes : StartsWith(col, p)

\* `sub in col` for a token sequence sub.
Contains(col, sub) ==
    \E i \in 1..(Len(col) - Len(sub) + 1) :
        SubSeq(col, i, i + Len(sub) - 1) = sub

\* df.columns
Columns(d) == [i \in 1..Len(d) |-> d[i].name]

\* col in df.columns
HasColumn(d, name) == \E i \in 1..Len(d) : d[i].name = name

\* df[col]: the values of the (first) column of that name.
Col(d, name) ==
    d[CHOOSE i \in 1..Len(d) : d[i].name = name /\
                               \A j \in 1..(i - 1) : d[j].name # name].values

\* len(df)
NRows(d) == IF d = <<>> THEN 0 ELSE Len(d[1].values)

\* Mutant of NotNaCount: len(series), missing values counted too.
NotNaCount_Len(s) == Len(s)

\* Mutant of NotNaCount: series.nunique() taken for the number of answers.
NotNaCount_NUnique(s) == Cardinality({s[i] : i \in 1..Len(s)} \ {NA})

\* series.notna().sum()
NotNaCount(s) == Cardinality({i \in 1..Len(s) : s[i] # NA})

\* series.sum(): missing values are skipped.
RECURSIVE SeriesSum(_)
SeriesSum(s) ==
    IF s = <<>> THEN 0
    ELSE (IF Head(s) = NA THEN 0 ELSE Val(Head(s))) + SeriesSum(Tail(s))

\* sum(s) for a sequence of numbers
RECURSIVE SeqSum(_)
SeqSum(s) == IF s = <<>> THEN 0 ELSE Head(s) + SeqSum(Tail(s))

\* series.nunique(): distinct non-missing values.
NUnique(s) == Cardinality({s[i] : i \in 1..Len(s)} \ {NA})

\* The labels observed in a series (its non-missing values).
Observed(s) == {Val(s[i]) : i \in {j \in 1..Len(s) : s[j] # NA}}

\* df[col].dtype: int64 or float64 for a column of numbers, object for a
\* column of labels.
Dtype(d, name) ==
    d[CHOOSE i \in 1..Len(d) : d[i].name = name /\
                               \A j \in 1..(i - 1) : d[j].name # name].dtype

\* Mutant of ValueCounts: every observed label mapped to 1, as if taken from
\* series.unique().
ValueCounts_Unique(s) == [v \in Observed(s) |-> 1]

\* series.value_counts(): observed label -> number of rows holding it.
ValueCounts(s) ==
    [v \in Observed(s) |-> Cardinality({i \in 1..Len(s) : s[i] = <<v>>})]

\* value_counts.get(val, 0)
CountsGet(vc, val) == IF val \in DOMAIN vc THEN vc[val] ELSE 0

\* ------------------------------------------------------------------------
\* Fractions
\* ------------------------------------------------------------------------
\* n / d for d > 0
Frac(n, d) == [num |-> n, den |-> d]

\* Mutant of FracGtInt: >= written for >.
FracGtInt_Ge(p, k) == p.num >= k * p.den

\* p > k for a fraction p and an integer k
FracGtInt(p, k) == p.num > k * p.den

\* p > q, p = q, p >= q for fractions
FracGt(p, q) == p.num * q.den > q.num * p.den
FracEq(p, q) == p.num * q.den = q.num * p.den
FracGe(p, q) == p.num * q.den >= q.num * p.den

\* Mutant of Percentage: the division without the guard on total.
Percentage_Unguarded(positive, total) == Frac(positive * 100, total)

\* (positive / total * 100) if total > 0 else 0
Percentage(positive, total) ==
    IF total > 0 THEN Frac(positive * 100, total) ELSE Frac(0, 1)

\* ------------------------------------------------------------------------
\* filter_complete_surveys
\* ------------------------------------------------------------------------
\* df[mask]: the rows, in order, at which the mask holds, in every column.
RowsWhere(d, mask) ==
    LET rows == SelectSeq([k \in 1..NRows(d) |-> k], LAMBDA k : mask[k])
    IN  [c \in 1..Len(d) |->
            [name |-> d[c].name,
             dtype |-> d[c].dtype,
             values |-> [k \in 1..Len(rows) |-> d[c].values[rows[k]]]]]

\* Mutant of filter_complete_surveys: the rows with any Progress are kept.
filter_complete_surveys_NotNa(d) ==
    IF HasColumn(d, Progress)
    THEN LET complete_df ==
                 RowsWhere(d, [k \in 1..NRows(d) |-> Col(d, Progress)[k] # NA])
         IN  [complete_df |-> complete_df,
              excluded_count |-> NRows(d) - NRows(complete_df),
              total |-> NRows(d)]
    ELSE [complete_df |-> d, excluded_count |-> 0, total |-> NRows(d)]

\* filter_complete_surveys(df): complete_df, excluded_count and len(df).  A
\* missing Progress is not equal to 100.
filter_complete_surveys(d) ==
    IF HasColumn(d, Progress)
    THEN LET complete_df ==
                 RowsWhere(d, [k \in 1..NRows(d) |-> Col(d, Progress)[k] = <<100>>])
         IN  [complete_df |-> complete_df,
              excluded_count |-> NRows(d) - NRows(complete_df),
              total |-> NRows(d)]
    ELSE [complete_df |-> d, excluded_count |-> 0, total |-> NRows(d)]

\* ------------------------------------------------------------------------
\* calculate_descriptive_stats
\* ------------------------------------------------------------------------
\* str.replace(sub + '_', ''): every occurrence of the tokens sub that other
\* tokens follow is dropped.
RECURSIVE ReplacePrefix(_, _)
ReplacePrefix(col, sub) ==
    IF col = <<>> THEN <<>>
    ELSE IF Len(col) > Len(sub) /\ SubSeq(col, 1, Len(sub)) = sub
         THEN ReplacePrefix(SubSeq(col, Len(sub) + 1, Len(col)), sub)
         ELSE <<Head(col)>> \o ReplacePrefix(Tail(col), sub)

\* service_cols: the Q9_ columns other than No_disruptions, in df.columns order
service_cols(d) ==
    SelectSeq(Columns(d),
              LAMBDA col : StartsWith(col, <<"Q9">>) /\ Len(col) > 1
                           /\ ~Contains(col, <<"No", "disruptions">>))

\* pop_cols: the Q10_Pop_ columns, in df.columns order
pop_cols(d) ==
    SelectSeq(Columns(d),
              LAMBDA col : StartsWith(col, <<"Q10", "Pop">>) /\ Len(col) > 2)

\* Mutant of ServiceResult: the display name stored as the variable.
ServiceResult_NameAsVariable(d, col) ==
    LET total_responses == NotNaCount(Col(d, col))
        positive_responses == SeriesSum(Col(d, col))
        percentage == Percentage(positive_responses, total_responses)
    IN  [variable |-> ReplacePrefix(col, <<"Q9">>),
         name |-> ReplacePrefix(col, <<"Q9">>),
         category |-> "Service Disruptions",
         type |-> "Binary",
         total |-> total_responses,
         positive |-> positive_responses,
         percentage |-> percentage,
         concern_level |-> IF FracGtInt(percentage, 40) THEN "high"
                            ELSE IF FracGtInt(percentage, 25) THEN "medium"
                            ELSE "low",
         rank |-> 0]

\* The stats_results entry of one service-disruption column.
ServiceResult(d, col) ==
    LET total_responses == NotNaCount(Col(d, col))
        positive_responses == SeriesSum(Col(d, col))
        percentage == Percentage(positive_responses, total_responses)
    IN  [variable |-> col,
         name |-> ReplacePrefix(col, <<"Q9">>),
         category |-> "Service Disruptions",
         type |-> "Binary",
         total |-> total_responses,
         positive |-> positive_responses,
         percentage |-> percentage,
         concern_level |-> IF FracGtInt(percentage, 40) THEN "high"
                            ELSE IF FracGtInt(percentage, 25) THEN "medium"
                            ELSE "low",
         rank |-> 0]

\* The stats_results entry of one populations-affected column.
PopResult(d, col) ==
    LET total_responses == NotNaCount(Col(d, col))
        positive_responses == SeriesSum(Col(d, col))
        percentage == Percentage(positive_responses, total_responses)
    IN  [variable |-> col,
         name |-> ReplacePrefix(col, <<"Q10", "Pop">>),
         category |-> "Populations Most Affected",
         type |-> "Binary",
         total |-> total_responses,
         positive |-> positive_responses,
         percentage |-> percentage,
         concern_level |-> IF FracGtInt(percentage, 40) THEN "high"
                            ELSE IF FracGtInt(percentage, 25) THEN "medium"
                            ELSE "low",
         rank |-> 0]

\* The prefixes that select the outcome variables of indicator sets 2 to 5;
\* any other indicator set selects none.
OutcomePrefixes(iset) ==
    CASE iset = "set2" -> {<<"Q21">>, <<"Q22">>, <<"Q23">>, <<"Q27">>, <<"Q28">>}
      [] iset = "set3" -> {<<"Q27">>, <<"Q23">>, <<"Q30">>}
      [] iset = "set4" -> {<<"Q11">>, <<"Q12">>, <<"Q13">>, <<"Q15">>}
      [] iset = "set5" -> {<<"Q18">>, <<"Q19">>}
      [] OTHER -> {}

\* outcome_vars, in df.columns order
outcome_vars(d, iset) ==
    SelectSeq(Columns(d), LAMBDA col : StartsWithAny(col, OutcomePrefixes(iset)))

\* The stats_results entry of an outcome variable taken as binary.
BinaryOutcomeResult(d, var) ==
    LET total_responses == NotNaCount(Col(d, var))
        positive_responses == SeriesSum(Col(d, var))
        percentage == Percentage(positive_responses, total_responses)
    IN  [variable |-> var,
         name |-> var,
         category |-> "Outcome",
         type |-> "Binary",
         total |-> total_responses,
         positive |-> positive_responses,
         percentage |-> percentage,
         concern_level |-> IF FracGtInt(percentage, 40) THEN "high"
                            ELSE IF FracGtInt(percentage, 25) THEN "medium"
                            ELSE "low",
         rank |-> 0]

\* The labels that count as concerning for every categorical outcome.
concerning_values ==
    <<"Very concerned", "Extremely concerned", "Significant disruptions",
      "Frequently", "Almost always", "Significant decline">>

\* Mutant of SumCounts: the count of the first concerning label observed,
\* not the sum over all of them.
RECURSIVE SumCounts_First(_, _)
SumCounts_First(vc, vals) ==
    IF vals = <<>> THEN 0
    ELSE IF Head(vals) \in DOMAIN vc THEN vc[Head(vals)]
    ELSE SumCounts_First(vc, Tail(vals))

\* sum([value_counts.get(val, 0) for val in vals])
RECURSIVE SumCounts(_, _)
SumCounts(vc, vals) ==
    IF vals = <<>> THEN 0
    ELSE CountsGet(vc, Head(vals)) + SumCounts(vc, Tail(vals))

\* Mutant of CategoricalOutcomeResult: the entry also carries a count of
\* positive responses.
CategoricalOutcomeResult_WithPositive(d, var) ==
    LET total_responses == NotNaCount(Col(d, var))
        value_counts == ValueCounts(Col(d, var))
        concerning_responses == SumCounts(value_counts, concerning_values)
        percentage == Percentage(concerning_responses, total_responses)
    IN  [variable |-> var,
         name |-> var,
         category |-> "Outcome",
         type |-> "Categorical",
         total |-> total_responses,
         positive |-> concerning_responses,
         categories |-> value_counts,
         percentage |-> percentage,
         concern_level |-> IF FracGtInt(percentage, 40) THEN "high"
                            ELSE IF FracGtInt(percentage, 25) THEN "medium"
                            ELSE "low",
         rank |-> 0]

\* The stats_results entry of an outcome variable taken as categorical.
CategoricalOutcomeResult(d, var) ==
    LET total_responses == NotNaCount(Col(d, var))
        value_counts == ValueCounts(Col(d, var))
        concerning_responses == SumCounts(value_counts, concerning_values)
        percentage == Percentage(concerning_responses, total_responses)
    IN  [variable |-> var,
         name |-> var,
         category |-> "Outcome",
         type |-> "Categorical",
         total |-> total_responses,
         categories |-> value_counts,
         percentage |-> percentage,
         concern_level |-> IF FracGtInt(percentage, 40) THEN "high"
                            ELSE IF FracGtInt(percentage, 25) THEN "medium"
                            ELSE "low",
         rank |-> 0]

\* The entry of one outcome variable: binary when the column is numeric with
\* at most two distinct values, categorical otherwise.
OutcomeResult(d, var) ==
    IF Dtype(d, var) \in {"int64", "float64"} /\ NUnique(Col(d, var)) <= 2
    THEN BinaryOutcomeResult(d, var)
    ELSE CategoricalOutcomeResult(d, var)

\* The loop over service_cols: the entry of every column that is in
\* df.columns, in order.
ServiceResults(d) ==
    LET present == SelectSeq(service_cols(d), LAMBDA col : HasColumn(d, col))
    IN  [i \in 1..Len(present) |-> ServiceResult(d, present[i])]

\* The loop over pop_cols.
PopResults(d) ==
    LET present == SelectSeq(pop_cols(d), LAMBDA col : HasColumn(d, col))
    IN  [i \in 1..Len(present) |-> PopResult(d, present[i])]

\* The loop over outcome_vars.
OutcomeResults(d, iset) ==
    LET present == SelectSeq(outcome_vars(d, iset),
                             LAMBDA var : HasColumn(d, var))
    IN  [i \in 1..Len(present) |-> OutcomeResult(d, present[i])]

\* Mutant of SortByPercentage: a descending sort that is not stable, a result
\* going ahead of the results of equal percentage already placed.
RECURSIVE SortByPercentage_Unstable(_)
SortByPercentage_Unstable(results) ==
    IF results = <<>> THEN <<>>
    ELSE LET n == Len(results)
             r == results[n]
             sorted == SortByPercentage_Unstable(SubSeq(results, 1, n - 1))
             k == Cardinality({i \in 1..Len(sorted) :
                                 FracGt(sorted[i].percentage, r.percentage)})
         IN  SubSeq(sorted, 1, k) \o <<r>> \o SubSeq(sorted, k + 1, Len(sorted))

\* Mutant of SortByPercentage: the stable descending sort with key 'total'.
RECURSIVE SortByPercentage_ByTotal(_)
SortByPercentage_ByTotal(results) ==
    IF results = <<>> THEN <<>>
    ELSE LET n == Len(results)
             r == results[n]
             sorted == SortByPercentage_ByTotal(SubSeq(results, 1, n - 1))
             k == Cardinality({i \in 1..Len(sorted) : sorted[i].total >= r.total})
         IN  SubSeq(sorted, 1, k) \o <<r>> \o SubSeq(sorted, k + 1, Len(sorted))

\* Mutant of SortByPercentage: the stable sort without reverse=True.
RECURSIVE SortByPercentage_Ascending(_)
SortByPercentage_Ascending(results) ==
    IF results = <<>> THEN <<>>
    ELSE LET n == Len(results)
             r == results[n]
             sorted == SortByPercentage_Ascending(SubSeq(results, 1, n - 1))
             k == Cardinality({i \in 1..Len(sorted) :
                                 FracGe(r.percentage, sorted[i].percentage)})
         IN  SubSeq(sorted, 1, k) \o <<r>> \o SubSeq(sorted, k + 1, Len(sorted))

\* list.sort(key=lambda x: x.get('percentage', 0), reverse=True): a stable
\* sort, so results of equal percentage keep their order.  Each result is
\* inserted behind every result already placed whose percentage is not lower.
RECURSIVE SortByPercentage(_)
SortByPercentage(results) ==
    IF results = <<>> THEN <<>>
    ELSE LET n == Len(results)
             r == results[n]
             sorted == SortByPercentage(SubSeq(results, 1, n - 1))
             k == Cardinality({i \in 1..Len(sorted) :
                                 FracGe(sorted[i].percentage, r.percentage)})
         IN  SubSeq(sorted, 1, k) \o <<r>> \o SubSeq(sorted, k + 1, Len(sorted))

\* for i, result in enumerate(results): result['rank'] = i + 1
AssignRanks(results) ==
    [i \in 1..Len(results) |-> [results[i] EXCEPT !.rank = i]]

\* The same with result['is_top_ranked'] = (i == 0), as done for set1, whose
\* results are all Binary.
AssignRanksTop(results) ==
    [i \in 1..Len(results) |->
        [variable |-> results[i].variable,
         name |-> results[i].name,
         category |-> results[i].category,
         type |-> results[i].type,
         total |-> results[i].total,
         positive |-> results[i].positive,
         percentage |-> results[i].percentage,
         concern_level |-> results[i].concern_level,
         rank |-> i,
         is_top_ranked |-> (i = 1)]]

\* Mutant of calculate_descriptive_stats: set1 sorted and ranked as one list,
\* services and populations together.
calculate_descriptive_stats_Merged(d, iset) ==
    IF iset = "set1"
    THEN LET computed == ServiceResults(d) \o PopResults(d)
         IN  AssignRanksTop(SortByPercentage(computed))
    ELSE AssignRanks(SortByPercentage(OutcomeResults(d, iset)))

\* Mutant of calculate_descriptive_stats: the list is not emptied at the start
\* of a call, so that a call appends to what the call before returned.
calculate_descriptive_stats_Accumulating(d, iset) ==
    stats_results \o
    (IF iset = "set1"
     THEN LET computed == ServiceResults(d) \o PopResults(d)
              service_results ==
                  SortByPercentage(SelectSeq(computed,
                      LAMBDA r : r.category = "Service Disruptions"))
              pop_results ==
                  SortByPercentage(SelectSeq(computed,
                      LAMBDA r : r.category = "Populations Most Affected"))
          IN  AssignRanksTop(service_results) \o AssignRanksTop(pop_results)
     ELSE AssignRanks(SortByPercentage(OutcomeResults(d, iset))))

\* Mutant of calculate_descriptive_stats: for set1 the populations are
\* returned ahead of the services.
calculate_descriptive_stats_PopFirst(d, iset) ==
    IF iset = "set1"
    THEN LET computed == ServiceResults(d) \o PopResults(d)
             service_results ==
                 SortByPercentage(SelectSeq(computed,
                     LAMBDA r : r.category = "Service Disruptions"))
             pop_results ==
                 SortByPercentage(SelectSeq(computed,
                     LAMBDA r : r.category = "Populations Most Affected"))
         IN  AssignRanksTop(pop_results) \o AssignRanksTop(service_results)
    ELSE AssignRanks(SortByPercentage(OutcomeResults(d, iset)))

\* calculate_descriptive_stats(df, indicator_set): the list it returns.
calculate_descriptive_stats(d, iset) ==
    IF iset = "set1"
    THEN LET computed == ServiceResults(d) \o PopResults(d)
             service_results ==
                 SortByPercentage(SelectSeq(computed,
                     LAMBDA r : r.category = "Service Disruptions"))
             pop_results ==
                 SortByPercentage(SelectSeq(computed,
                     LAMBDA r : r.category = "Populations Most Affected"))
         IN  AssignRanksTop(service_results) \o AssignRanksTop(pop_results)
    ELSE AssignRanks(SortByPercentage(OutcomeResults(d, iset)))

\* ------------------------------------------------------------------------
\* create_cross_tabulation
\* ------------------------------------------------------------------------
\* The labels of the model in alphabetical order: the order in which pandas
\* sorts the labels of a column of strings.
AlphabeticalLabels ==
    <<"Almost always", "Always", "Case Manager", "Extremely concerned",
      "Frequently", "Never", "Pharmacist", "Registered Nurse (RN)",
      "Slightly concerned">>

\* The numbers of a finite set in increasing order.
RECURSIVE SortedNumbers(_)
SortedNumbers(S) ==
    IF S = {} THEN <<>>
    ELSE LET least == CHOOSE x \in S : \A y \in S : x <= y
         IN  <<least>> \o SortedNumbers(S \ {least})

\* df[[outcome_var, independent_var]].dropna(): the rows, in order, in which
\* both variables are answered.
CleanRows(d, ovar, ivar) ==
    SelectSeq([k \in 1..NRows(d) |-> k],
              LAMBDA k : Col(d, ovar)[k] # NA /\ Col(d, ivar)[k] # NA)

\* The distinct values a column takes on the rows, sorted as pandas sorts the
\* keys of a cross-tabulation.
SortedLabels(d, name, rows) ==
    LET observed == {Val(Col(d, name)[rows[k]]) : k \in 1..Len(rows)}
    IN  IF Dtype(d, name) = "object"
        THEN SelectSeq(AlphabeticalLabels, LAMBDA l : l \in observed)
        ELSE SortedNumbers(observed)

\* The number of the rows with independent value r and outcome value c.
CellCount(d, ovar, ivar, rows, r, c) ==
    Cardinality({k \in 1..Len(rows) :
                    /\ Col(d, ivar)[rows[k]] = <<r>>
                    /\ Col(d, ovar)[rows[k]] = <<c>>})

\* Mutant of Crosstab: the table without margins.
Crosstab_NoMargins(d, ovar, ivar, rows) ==
    LET index == SortedLabels(d, ivar, rows)
        columns == SortedLabels(d, ovar, rows)
    IN  [index |-> index,
         columns |-> columns,
         values |->
            [i \in 1..Len(index) |->
                [j \in 1..Len(columns) |->
                    CellCount(d, ovar, ivar, rows, index[i], columns[j])]]]

\* pd.crosstab(clean_df[independent_var], clean_df[outcome_var], margins=True):
\* index and columns are the observed labels, and values has one more row and
\* one more column than these, the margins 'All', which hold the sums.
Crosstab(d, ovar, ivar, rows) ==
    LET index == SortedLabels(d, ivar, rows)
        columns == SortedLabels(d, ovar, rows)
        inner(i, j) == CellCount(d, ovar, ivar, rows, index[i], columns[j])
        rowsum(i) == SeqSum([j \in 1..Len(columns) |-> inner(i, j)])
        colsum(j) == SeqSum([i \in 1..Len(index) |-> inner(i, j)])
    IN  [index |-> index,
         columns |-> columns,
         values |->
            [i \in 1..(Len(index) + 1) |->
                [j \in 1..(Len(columns) + 1) |->
                    IF i <= Len(index) /\ j <= Len(columns) THEN inner(i, j)
                    ELSE IF i <= Len(index) THEN rowsum(i)
                    ELSE IF j <= Len(columns) THEN colsum(j)
                    ELSE Len(rows)]]]

\* Mutant of CrosstabPct: normalize=True, each cell the share of all rows.
CrosstabPct_NormalizeAll(d, ovar, ivar, rows) ==
    LET index == SortedLabels(d, ivar, rows)
        columns == SortedLabels(d, ovar, rows)
    IN  [index |-> index,
         columns |-> columns,
         values |->
            [i \in 1..Len(index) |->
                [j \in 1..Len(columns) |->
                    Frac(CellCount(d, ovar, ivar, rows, index[i], columns[j]) * 100,
                         Len(rows))]]]

\* Mutant of CrosstabPct: normalize='columns', each cell the share of its
\* column.
CrosstabPct_NormalizeColumns(d, ovar, ivar, rows) ==
    LET index == SortedLabels(d, ivar, rows)
        columns == SortedLabels(d, ovar, rows)
        inner(i, j) == CellCount(d, ovar, ivar, rows, index[i], columns[j])
        colsum(j) == SeqSum([i \in 1..Len(index) |-> inner(i, j)])
    IN  [index |-> index,
         columns |-> columns,
         values |->
            [i \in 1..Len(index) |->
                [j \in 1..Len(columns) |-> Frac(inner(i, j) * 100, colsum(j))]]]

\* pd.crosstab(..., normalize='index') * 100: no margins, each cell the share
\* of its row in percent.
CrosstabPct(d, ovar, ivar, rows) ==
    LET index == SortedLabels(d, ivar, rows)
        columns == SortedLabels(d, ovar, rows)
        inner(i, j) == CellCount(d, ovar, ivar, rows, index[i], columns[j])
        rowsum(i) == SeqSum([j \in 1..Len(columns) |-> inner(i, j)])
    IN  [index |-> index,
         columns |-> columns,
         values |->
            [i \in 1..Len(index) |->
                [j \in 1..Len(columns) |-> Frac(inner(i, j) * 100, rowsum(i))]]]

\* crosstab.iloc[:-1, :-1]: the counts without the last row and column.
TestCrosstab(crosstab) ==
    [i \in 1..(Len(crosstab.values) - 1) |->
        SubSeq(crosstab.values[i], 1, Len(crosstab.values[i]) - 1)]

\* table.shape
Shape(table) == <<Len(table), IF table = <<>> THEN 0 ELSE Len(table[1])>>

\* table.sum().sum()
TableSum(table) == SeqSum([i \in 1..Len(table) |-> SeqSum(table[i])])

\* Mutant of Min: the larger of the two.
Min_Max(a, b) == IF a <= b THEN b ELSE a

Min(a, b) == IF a <= b THEN a ELSE b

Abs(a) == IF a < 0 THEN -a ELSE a

RECURSIVE Gcd(_, _)
Gcd(a, b) == IF b = 0 THEN a ELSE Gcd(b, a % b)

\* The fraction n / d in lowest terms.
Reduced(n, d) ==
    LET g == Gcd(Abs(n), d) IN Frac(n \div g, d \div g)

\* p + q
FracAdd(p, q) == Reduced(p.num * q.den + q.num * p.den, p.den * q.den)

\* The sum of a sequence of fractions.
RECURSIVE FracSum(_)
FracSum(s) == IF s = <<>> THEN Frac(0, 1) ELSE FracAdd(Head(s), FracSum(Tail(s)))

\* Mutant of chi2_contingency: an observed count of zero raises.
chi2_contingency_RaisesOnZeroCell(observed) ==
    LET nr == Len(observed)
        nc == Len(observed[1])
        n == TableSum(observed)
        rowsum(i) == SeqSum(observed[i])
        colsum(j) == SeqSum([i \in 1..nr |-> observed[i][j]])
        dof == (nr - 1) * (nc - 1)
        dist(i, j) == Abs(observed[i][j] * n - rowsum(i) * colsum(j))
        term(i, j) ==
            IF dof = 1
            THEN LET m == IF 2 * dist(i, j) > n THEN 2 * dist(i, j) - n ELSE 0
                 IN  Reduced(m * m, 4 * n * rowsum(i) * colsum(j))
            ELSE Reduced(dist(i, j) * dist(i, j), n * rowsum(i) * colsum(j))
        cells == [k \in 1..(nr * nc) |-> <<((k - 1) \div nc) + 1, ((k - 1) % nc) + 1>>]
    IN  IF \E i \in 1..nr, j \in 1..nc : observed[i][j] = 0
        THEN [raised |-> TRUE]
        ELSE LET chi2 == FracSum([k \in 1..(nr * nc) |-> term(cells[k][1], cells[k][2])])
             IN  [raised |-> FALSE,
                  chi2 |-> chi2,
                  p |-> [sf |-> chi2, dof |-> dof],
                  dof |-> dof]

\* scipy.stats.chi2_contingency(observed) on a table of counts with positive
\* total.  The expected frequency of a cell is rowsum * colsum / n, and a zero
\* among them raises ValueError.  With one degree of freedom each observed
\* count is first moved towards its expected frequency by min(0.5, distance)
\* (Yates' correction).  The statistic is the sum of
\* (observed - expected)^2 / expected; the p-value is the chi-square survival
\* function of the statistic at dof, kept as that pair.
chi2_contingency(observed) ==
    LET nr == Len(observed)
        nc == Len(observed[1])
        n == TableSum(observed)
        rowsum(i) == SeqSum(observed[i])
        colsum(j) == SeqSum([i \in 1..nr |-> observed[i][j]])
        dof == (nr - 1) * (nc - 1)
        \* n * |observed - expected|
        dist(i, j) == Abs(observed[i][j] * n - rowsum(i) * colsum(j))
        \* (observed - expected)^2 / expected, after the correction if any
        term(i, j) ==
            IF dof = 1
            THEN LET m == IF 2 * dist(i, j) > n THEN 2 * dist(i, j) - n ELSE 0
                 IN  Reduced(m * m, 4 * n * rowsum(i) * colsum(j))
            ELSE Reduced(dist(i, j) * dist(i, j), n * rowsum(i) * colsum(j))
        cells == [k \in 1..(nr * nc) |-> <<((k - 1) \div nc) + 1, ((k - 1) % nc) + 1>>]
    IN  IF \E i \in 1..nr, j \in 1..nc : rowsum(i) * colsum(j) = 0
        THEN [raised |-> TRUE]
        ELSE LET chi2 == FracSum([k \in 1..(nr * nc) |-> term(cells[k][1], cells[k][2])])
             IN  [raised |-> FALSE,
                  chi2 |-> chi2,
                  p |-> [sf |-> chi2, dof |-> dof],
                  dof |-> dof]

\* Mutant of StatisticalTests: the test runs whenever the table has two rows,
\* whatever the number of its columns.
StatisticalTests_RowsOnly(crosstab) ==
    LET test_crosstab == TestCrosstab(crosstab)
        unset == [chi2_stat |-> None, p_value |-> None, cramers_v |-> None]
    IN  IF Shape(test_crosstab)[1] > 1
        THEN LET test == chi2_contingency(test_crosstab)
                 n == TableSum(test_crosstab)
                 k == Min(Shape(test_crosstab)[1], Shape(test_crosstab)[2]) - 1
             IN  IF test.raised THEN unset
                 ELSE [chi2_stat |-> <<test.chi2>>,
                       p_value |-> <<test.p>>,
                       cramers_v |->
                          <<[sqrt |-> Frac(test.chi2.num, test.chi2.den * n * k)]>>]
        ELSE unset

\* p < 0.05 for a p-value of chi2_contingency: the survival function
\* decreases in the statistic, and takes 0.05 at 3.841459 with one degree of
\* freedom, at 5.991465 with two and at 9.487730 with four.
PValueBelow005(p) ==
    \/ p.dof = 1 /\ p.sf.num * 1000000 > 3841459 * p.sf.den
    \/ p.dof = 2 /\ p.sf.num * 1000000 > 5991465 * p.sf.den
    \/ p.dof = 4 /\ p.sf.num * 1000000 > 9487730 * p.sf.den

\* Mutant of StatisticalTests: cramers_v is computed only for a statistic that
\* is not zero.
StatisticalTests_VUnlessZero(crosstab) ==
    LET test_crosstab == TestCrosstab(crosstab)
        unset == [chi2_stat |-> None, p_value |-> None, cramers_v |-> None]
    IN  IF Shape(test_crosstab)[1] > 1 /\ Shape(test_crosstab)[2] > 1
        THEN LET test == chi2_contingency(test_crosstab)
                 n == TableSum(test_crosstab)
                 k == Min(Shape(test_crosstab)[1], Shape(test_crosstab)[2]) - 1
             IN  IF test.raised THEN unset
                 ELSE [chi2_stat |-> <<test.chi2>>,
                       p_value |-> <<test.p>>,
                       cramers_v |->
                          IF test.chi2.num = 0 THEN None
                          ELSE <<[sqrt |-> Reduced(test.chi2.num,
                                                   test.chi2.den * n * k)]>>]
        ELSE unset

\* Mutant of StatisticalTests: the statistic is not divided by n.
StatisticalTests_WithoutN(crosstab) ==
    LET test_crosstab == TestCrosstab(crosstab)
        unset == [chi2_stat |-> None, p_value |-> None, cramers_v |-> None]
    IN  IF Shape(test_crosstab)[1] > 1 /\ Shape(test_crosstab)[2] > 1
        THEN LET test == chi2_contingency(test_crosstab)
                 k == Min(Shape(test_crosstab)[1], Shape(test_crosstab)[2]) - 1
             IN  IF test.raised THEN unset
                 ELSE [chi2_stat |-> <<test.chi2>>,
                       p_value |-> <<test.p>>,
                       cramers_v |->
                          <<[sqrt |-> Reduced(test.chi2.num,
                                              test.chi2.den * k)]>>]
        ELSE unset

\* The statistical fields of the result: chi2_stat, p_value and cramers_v,
\* each None unless the try block assigned it.  cramers_v is the square root
\* of the fraction kept in it.
StatisticalTests(crosstab) ==
    LET test_crosstab == TestCrosstab(crosstab)
        unset == [chi2_stat |-> None, p_value |-> None, cramers_v |-> None]
    IN  IF Shape(test_crosstab)[1] > 1 /\ Shape(test_crosstab)[2] > 1
        THEN LET test == chi2_contingency(test_crosstab)
                 n == TableSum(test_crosstab)
                 k == Min(Shape(test_crosstab)[1], Shape(test_crosstab)[2]) - 1
             IN  IF test.raised THEN unset
                 ELSE [chi2_stat |-> <<test.chi2>>,
                       p_value |-> <<test.p>>,
                       cramers_v |->
                          <<[sqrt |-> Reduced(test.chi2.num,
                                              test.chi2.den * n * k)]>>]
        ELSE unset

\* Mutant of create_cross_tabulation: no early return when no row is left.
create_cross_tabulation_NoEmptyCheck(d, ovar, ivar) ==
    IF ~HasColumn(d, ovar) \/ ~HasColumn(d, ivar) THEN None
    ELSE LET clean_df == CleanRows(d, ovar, ivar)
             crosstab == Crosstab(d, ovar, ivar, clean_df)
             crosstab_pct == CrosstabPct(d, ovar, ivar, clean_df)
             tests == StatisticalTests(crosstab)
         IN  <<[crosstab |-> crosstab,
                percentages |-> crosstab_pct,
                chi2_stat |-> tests.chi2_stat,
                p_value |-> tests.p_value,
                cramers_v |-> tests.cramers_v,
                sample_size |-> Len(clean_df)]>>

\* Mutant of create_cross_tabulation: sample_size counts the rows of df.
create_cross_tabulation_LenDf(d, ovar, ivar) ==
    IF ~HasColumn(d, ovar) \/ ~HasColumn(d, ivar) THEN None
    ELSE LET clean_df == CleanRows(d, ovar, ivar)
         IN  IF Len(clean_df) = 0 THEN None
             ELSE LET crosstab == Crosstab(d, ovar, ivar, clean_df)
                      crosstab_pct == CrosstabPct(d, ovar, ivar, clean_df)
                      tests == StatisticalTests(crosstab)
                  IN  <<[crosstab |-> crosstab,
                         percentages |-> crosstab_pct,
                         chi2_stat |-> tests.chi2_stat,
                         p_value |-> tests.p_value,
                         cramers_v |-> tests.cramers_v,
                         sample_size |-> NRows(d)]>>

\* Mutant of create_cross_tabulation: the two tables are put into the result
\* only when the test assigned its statistics.
create_cross_tabulation_TablesWithTest(d, ovar, ivar) ==
    IF ~HasColumn(d, ovar) \/ ~HasColumn(d, ivar) THEN None
    ELSE LET clean_df == CleanRows(d, ovar, ivar)
         IN  IF Len(clean_df) = 0 THEN None
             ELSE LET crosstab == Crosstab(d, ovar, ivar, clean_df)
                      crosstab_pct == CrosstabPct(d, ovar, ivar, clean_df)
                      tests == StatisticalTests(crosstab)
                  IN  IF tests.chi2_stat = None
                      THEN <<[chi2_stat |-> tests.chi2_stat,
                              p_value |-> tests.p_value,
                              cramers_v |-> tests.cramers_v,
                              sample_size |-> Len(clean_df)]>>
                      ELSE <<[crosstab |-> crosstab,
                              percentages |-> crosstab_pct,
                              chi2_stat |-> tests.chi2_stat,
                              p_value |-> tests.p_value,
                              cramers_v |-> tests.cramers_v,
                              sample_size |-> Len(clean_df)]>>

\* create_cross_tabulation(df, outcome_var, independent_var): None, or
\* <<result>>.
create_cross_tabulation(d, ovar, ivar) ==
    IF ~HasColumn(d, ovar) \/ ~HasColumn(d, ivar) THEN None
    ELSE LET clean_df == CleanRows(d, ovar, ivar)
         IN  IF Len(clean_df) = 0 THEN None
             ELSE LET crosstab == Crosstab(d, ovar, ivar, clean_df)
                      crosstab_pct == CrosstabPct(d, ovar, ivar, clean_df)
                      tests == StatisticalTests(crosstab)
                  IN  <<[crosstab |-> crosstab,
                         percentages |-> crosstab_pct,
                         chi2_stat |-> tests.chi2_stat,
                         p_value |-> tests.p_value,
                         cramers_v |-> tests.cramers_v,
                         sample_size |-> Len(clean_df)]>>

\* ------------------------------------------------------------------------
\* show_cross_tabulation: the metrics shown for a result
\* ------------------------------------------------------------------------
\* st.metric(label, "N/A")
NotAvailable == [text |-> "N/A"]

\* st.metric(label, f"{x:.3f}"): the number shown to three decimals; the
\* digits are not computed.
Formatted(x) == [format |-> "{:.3f}", value |-> x]

\* `if result['chi2_stat']:` and `if result['cramers_v']:` a field passes the
\* test when it is neither None nor zero.
TruthyStatistic(field) == field # None /\ field[1].num # 0
TruthyCramersV(field) == field # None /\ field[1].sqrt.num # 0

\* The four metrics shown for what create_cross_tabulation returned: none for
\* None (`if result:`), else Sample Size, Chi-Square, P-Value and Cramér's V.
ShowMetrics(result) ==
    IF result = None THEN None
    ELSE <<[sample_size |-> result[1].sample_size,
            chi_square |-> IF TruthyStatistic(result[1].chi2_stat)
                           THEN Formatted(result[1].chi2_stat[1])
                           ELSE NotAvailable,
            p_value |-> IF result[1].p_value # None
                        THEN Formatted(result[1].p_value[1])
                        ELSE NotAvailable,
            cramers_v |-> IF TruthyCramersV(result[1].cramers_v)
                          THEN Formatted(result[1].cramers_v[1])
                          ELSE NotAvailable]>>

\* ------------------------------------------------------------------------
\* The dataset after a call
\* ------------------------------------------------------------------------
\* calculate_descriptive_stats reads df.columns and df[col] and assigns to no
\* part of df: the caller's dataset after the call is the dataset before it.
InputAfterDescriptiveStats(d, iset) == d

\* Mutant of InputAfterCrossTabulation: the rows with a missing answer are
\* dropped from df itself, not from a copy.
InputAfterCrossTabulation_DropNaInPlace(d, ovar, ivar) ==
    IF ~HasColumn(d, ovar) \/ ~HasColumn(d, ivar) THEN d
    ELSE LET rows == CleanRows(d, ovar, ivar)
         IN  [c \in 1..Len(d) |->
                 [name |-> d[c].name,
                  dtype |-> d[c].dtype,
                  values |-> [k \in 1..Len(rows) |-> d[c].values[rows[k]]]]]

\* create_cross_tabulation selects the two columns into a new frame and drops
\* the incomplete rows of that frame (clean_df); the crosstab calls read
\* clean_df.  The caller's dataset after the call is the dataset before it.
InputAfterCrossTabulation(d, ovar, ivar) == d

\* ------------------------------------------------------------------------
\* Datasets
\* ------------------------------------------------------------------------
\* n copies of x
Repeat(x, n) == [i \in 1..n |-> x]

\* The series of n rows that holds counts[k] answers labels[k], label after
\* label, and missing values in its last rows.
RECURSIVE SeriesOf(_, _, _)
SeriesOf(labels, counts, n) ==
    IF labels = <<>> THEN Repeat(NA, n)
    ELSE Repeat(<<Head(labels)>>, counts[1])
         \o SeriesOf(Tail(labels), Tail(counts), n - counts[1])

\* Every series of n rows over the labels, up to the order of its rows.
AllSeries(labels, n) ==
    {SeriesOf(labels, counts, n) :
        counts \in {c \in [1..Len(labels) -> 0..n] : SeqSum(c) <= n}}

\* The columns named name: a binary column holds 0, 1 or missing and is int64,
\* or float64 once a value is missing; a categorical column holds one of its
\* labels or missing and is object.
ColumnsNamed(name, kind, labels, n) ==
    {[name |-> name,
      dtype |-> IF kind = "categorical" THEN "object"
                ELSE IF \E i \in 1..n : s[i] = NA THEN "float64" ELSE "int64",
      values |-> s] : s \in AllSeries(labels, n)}

\* The datasets of n rows whose columns are some of the columns of the family,
\* in the family's order.  family[i] is <<name, kind, labels>>.
RECURSIVE DatasetsOver(_, _)
DatasetsOver(family, n) ==
    IF family = <<>> THEN {<<>>}
    ELSE LET rest == DatasetsOver(Tail(family), n)
         IN  rest \cup
             {<<c>> \o r : c \in ColumnsNamed(Head(family)[1], Head(family)[2],
                                               Head(family)[3], n),
                           r \in rest}

\* The column families of the descriptive model: the columns of a dataset
\* are some of the columns of one family.
ServiceFamily ==
    <<<<Q9_HIV_Testing, "binary", BinaryValues>>,
      <<Q9_HIV_Treatment, "binary", BinaryValues>>,
      <<Q10_Pop_Transgender, "binary", BinaryValues>>>>

PopFamily ==
    <<<<Q9_No_disruptions, "binary", BinaryValues>>,
      <<Q10_Pop_Transgender, "binary", BinaryValues>>,
      <<Q10_Pop_Older_Adults, "binary", BinaryValues>>>>

BarrierFamily ==
    <<<<Q23_Housing_Instability, "categorical", HousingLabels>>,
      <<Q27_Trans_Barrier_HIV_Testing, "binary", BinaryValues>>,
      <<Q27_Trans_Barrier_Mental_Health, "binary", BinaryValues>>>>

GuidanceFamily ==
    <<<<Q13_Concern_Medicaid_Cuts, "categorical", ConcernLabels>>,
      <<Q18_Federal_Guidelines_Use, "categorical", GuidelinesLabels>>,
      <<Q19_Guidelines_Access_Delays, "binary", BinaryValues>>>>

DescriptiveFamilies ==
    <<ServiceFamily, PopFamily, BarrierFamily, GuidanceFamily>>

\* The sequences of n numbers of lo..hi that do not decrease.
RECURSIVE NonDecreasing(_, _, _)
NonDecreasing(n, lo, hi) ==
    IF n = 0 THEN {<<>>}
    ELSE UNION {{<<x>> \o t : t \in NonDecreasing(n - 1, x, hi)} : x \in lo..hi}

\* The cells a column of the labels can hold: each label, and missing.
CellsOver(labels) == [k \in 1..(Len(labels) + 1) |->
                         IF k <= Len(labels) THEN <<labels[k]>> ELSE NA]

\* The dtype of a column of the kind with these cells.
DtypeOf(kind, cells) ==
    IF kind = "categorical" THEN "object"
    ELSE IF \E k \in 1..Len(cells) : cells[k] = NA THEN "float64" ELSE "int64"

\* The datasets of n rows with the two columns of the pair, every combination
\* of answers of the rows, up to the order of the rows.  pair[i] is
\* <<name, kind, labels>>.
PairDatasets(pair, n) ==
    LET first == CellsOver(pair[1][3])
        second == CellsOver(pair[2][3])
        \* row type t holds first[FirstOf(t)] and second[SecondOf(t)]
        FirstOf(t) == ((t - 1) \div Len(second)) + 1
        SecondOf(t) == ((t - 1) % Len(second)) + 1
        column(i, cells) ==
            [name |-> pair[i][1],
             dtype |-> DtypeOf(pair[i][2], cells),
             values |-> cells]
    IN  {<<column(1, [k \in 1..n |-> first[FirstOf(t[k])]]),
           column(2, [k \in 1..n |-> second[SecondOf(t[k])]])>> :
            t \in NonDecreasing(n, 1, Len(first) * Len(second))}

\* The pairs of columns of the cross-tabulation model: an independent variable
\* and an outcome variable.
RolePair ==
    <<<<Q2_Professional_Role, "categorical", RoleLabels>>,
      <<Q9_HIV_Testing, "binary", BinaryValues>>>>

SettingPair ==
    <<<<Q3_Setting_Ryan_White, "binary", BinaryValues>>,
      <<Q23_Housing_Instability, "categorical", HousingLabels>>>>

CrossTabPairs == <<RolePair, SettingPair>>

\* Two categorical columns, for tables of up to three rows and three columns.
RoleHousingPair ==
    <<<<Q2_Professional_Role, "categorical", RoleLabels>>,
      <<Q23_Housing_Instability, "categorical", HousingLabels>>>>

\* The datasets of two groups of respondents with a binary outcome, none
\* missing: the first half of the n rows has the first role and the other rows
\* the second, and in each group any number of rows has outcome 1.
TwoGroupDatasets(n) ==
    LET sizeA == n \div 2
        sizeB == n - sizeA
    IN  {<<[name |-> Q2_Professional_Role,
            dtype |-> "object",
            values |-> Repeat(<<RoleLabels[1]>>, sizeA)
                       \o Repeat(<<RoleLabels[2]>>, sizeB)],
           [name |-> Q9_HIV_Testing,
            dtype |-> "int64",
            values |-> Repeat(<<0>>, sizeA - a) \o Repeat(<<1>>, a)
                       \o Repeat(<<0>>, sizeB - b) \o Repeat(<<1>>, b)]>> :
            a \in 0..sizeA, b \in 0..sizeB}

\* The outcome and independent variables the model selects among.
OutcomeChoices == {Q9_HIV_Testing, Q23_Housing_Instability}
IndependentChoices == {Q2_Professional_Role, Q3_Setting_Ryan_White}

\* The indicator sets the dashboard offers.
IndicatorSets == {"set1", "set2", "set3", "set4", "set5"}

\* ------------------------------------------------------------------------
\* Calls in flight
\* ------------------------------------------------------------------------
\* The threads that call the engines on the same dataset.
Threads == {"t1", "t2"}

\* The indicator sets the threads select among.
ConcurrentSets == {"set1", "set3"}

\* The frame of a thread that is in no call.  The frame of a call holds the
\* engine called, its arguments, the position of the call, its local
\* variables, and in the end the value it returns.
IdleFrame ==
    [op |-> "idle", args |-> <<>>, pos |-> "idle",
     stats_results |-> <<>>, clean_df |-> <<>>,
     crosstab |-> None, crosstab_pct |-> None, result |-> None]

\* Mutant of Local: the local variables are module-level variables, the ones
\* of thread t1 for every thread.
Local_Shared(fr, t) == fr["t1"]

\* The local variables a call reads and writes: those of its own frame.
Local(fr, t) == fr[t]

\* The sorting and ranking at the end of calculate_descriptive_stats, on the
\* list of the results computed so far.
RankResults(computed, iset) ==
    IF iset = "set1"
    THEN LET service_results ==
                 SortByPercentage(SelectSeq(computed,
                     LAMBDA r : r.category = "Service Disruptions"))
             pop_results ==
                 SortByPercentage(SelectSeq(computed,
                     LAMBDA r : r.category = "Populations Most Affected"))
         IN  AssignRanksTop(service_results) \o AssignRanksTop(pop_results)
    ELSE AssignRanks(SortByPercentage(computed))

\* ------------------------------------------------------------------------
\* The state machine
\* ------------------------------------------------------------------------
Init ==
    /\ \E k \in 1..Len(DescriptiveFamilies) :
           df \in DatasetsOver(DescriptiveFamilies[k], NumRows)
    /\ indicator_set = None
    /\ stats_results = <<>>
    /\ outcome_var = None
    /\ independent_var = None
    /\ xt_result = None
    /\ metrics = None
    /\ pc = "loaded"
    /\ frames = [t \in Threads |-> IdleFrame]
    /\ filtered = None

\* stats_results = calculate_descriptive_stats(df, selected_set)
CalculateDescriptiveStats(iset) ==
    /\ indicator_set' = <<iset>>
    /\ stats_results' = calculate_descriptive_stats(df, iset)
    /\ pc' = "described"
    /\ df' = InputAfterDescriptiveStats(df, iset)
    /\ UNCHANGED <<outcome_var, independent_var, xt_result, metrics, frames,
                   filtered>>

Next == \E iset \in IndicatorSets : CalculateDescriptiveStats(iset)

Spec == Init /\ [][Next]_vars

\* The cross-tabulation engine on its own datasets.
InitCT ==
    /\ \/ \E k \in 1..Len(CrossTabPairs) :
              df \in PairDatasets(CrossTabPairs[k], CrossTabRows)
       \/ df \in PairDatasets(RoleHousingPair, CrossTabRows)
       \/ df \in TwoGroupDatasets(ScenarioRows)
    /\ indicator_set = None
    /\ stats_results = <<>>
    /\ outcome_var = None
    /\ independent_var = None
    /\ xt_result = None
    /\ metrics = None
    /\ pc = "loaded"
    /\ frames = [t \in Threads |-> IdleFrame]
    /\ filtered = None

\* result = create_cross_tabulation(df, outcome_var, independent_var)
CreateCrossTabulation(ovar, ivar) ==
    /\ outcome_var' = <<ovar>>
    /\ independent_var' = <<ivar>>
    /\ xt_result' = create_cross_tabulation(df, ovar, ivar)
    /\ metrics' = ShowMetrics(create_cross_tabulation(df, ovar, ivar))
    /\ pc' = "tabulated"
    /\ df' = InputAfterCrossTabulation(df, ovar, ivar)
    /\ UNCHANGED <<indicator_set, stats_results, frames, filtered>>

NextCT ==
    \E ovar \in OutcomeChoices, ivar \in IndependentChoices :
        CreateCrossTabulation(ovar, ivar)

SpecCT == InitCT /\ [][NextCT]_vars

\* The two engines on one dataset, each page of the dashboard calling its
\* engine again, with the selection it has, whenever the page is run again.
InitEngines ==
    /\ \E k \in 1..Len(CrossTabPairs) :
           df \in PairDatasets(CrossTabPairs[k], EngineRows)
    /\ indicator_set = None
    /\ stats_results = <<>>
    /\ outcome_var = None
    /\ independent_var = None
    /\ xt_result = None
    /\ metrics = None
    /\ pc = "loaded"
    /\ frames = [t \in Threads |-> IdleFrame]
    /\ filtered = None

RerunDescriptiveStats ==
    /\ indicator_set # None
    /\ stats_results' = calculate_descriptive_stats(df, indicator_set[1])
    /\ pc' = "described again"
    /\ df' = InputAfterDescriptiveStats(df, indicator_set[1])
    /\ UNCHANGED <<indicator_set, outcome_var, independent_var, xt_result,
                   metrics, frames, filtered>>

RerunCrossTabulation ==
    /\ outcome_var # None /\ independent_var # None
    /\ xt_result' = create_cross_tabulation(df, outcome_var[1], independent_var[1])
    /\ metrics' = ShowMetrics(create_cross_tabulation(df, outcome_var[1],
                                                      independent_var[1]))
    /\ pc' = "tabulated again"
    /\ df' = InputAfterCrossTabulation(df, outcome_var[1], independent_var[1])
    /\ UNCHANGED <<indicator_set, stats_results, outcome_var, independent_var,
                   frames, filtered>>

NextEngines ==
    \/ \E iset \in IndicatorSets : CalculateDescriptiveStats(iset)
    \/ \E ovar \in OutcomeChoices, ivar \in IndependentChoices :
           CreateCrossTabulation(ovar, ivar)
    \/ RerunDescriptiveStats
    \/ RerunCrossTabulation

SpecEngines == InitEngines /\ [][NextEngines]_vars

\* The two engines called from two threads on one dataset, the steps of the
\* calls interleaved.
InitConcurrent ==
    /\ \E k \in 1..Len(CrossTabPairs) :
           df \in PairDatasets(CrossTabPairs[k], ConcurrentRows)
    /\ indicator_set = None
    /\ stats_results = <<>>
    /\ outcome_var = None
    /\ independent_var = None
    /\ xt_result = None
    /\ metrics = None
    /\ pc = "loaded"
    /\ frames = [t \in Threads |-> IdleFrame]
    /\ filtered = None

\* The thread is in no call, or its call has returned.
CanCall(t) == frames[t].pos \in {"idle", "returned"}

\* The state the steps of the calls leave alone.
Shared ==
    <<df, indicator_set, stats_results, outcome_var, independent_var,
      xt_result, metrics, pc, filtered>>

\* calculate_descriptive_stats(df, iset) is called: stats_results = []
CallDescriptiveStats(t, iset) ==
    /\ CanCall(t)
    /\ frames' = [frames EXCEPT ![t] =
                     [IdleFrame EXCEPT !.op = "descriptive",
                                       !.args = <<iset>>,
                                       !.pos = "called"]]
    /\ UNCHANGED Shared

\* The results of the columns of the set are appended to the list.
DescriptiveCompute(t) ==
    /\ frames[t].op = "descriptive" /\ frames[t].pos = "called"
    /\ LET iset == frames[t].args[1]
           computed == IF iset = "set1"
                       THEN ServiceResults(df) \o PopResults(df)
                       ELSE OutcomeResults(df, iset)
       IN  frames' = [frames EXCEPT ![t].pos = "computed",
                                    ![t].stats_results =
                                        Local(frames, t).stats_results \o computed]
    /\ UNCHANGED Shared

\* The list is sorted, ranked and returned.
DescriptiveReturn(t) ==
    /\ frames[t].op = "descriptive" /\ frames[t].pos = "computed"
    /\ frames' = [frames EXCEPT ![t].pos = "returned",
                                ![t].result =
                                    RankResults(Local(frames, t).stats_results,
                                                frames[t].args[1])]
    /\ UNCHANGED Shared

\* create_cross_tabulation(df, ovar, ivar) is called.
CallCrossTabulation(t, ovar, ivar) ==
    /\ CanCall(t)
    /\ frames' = [frames EXCEPT ![t] =
                     [IdleFrame EXCEPT !.op = "crosstab",
                                       !.args = <<ovar, ivar>>,
                                       !.pos = "called"]]
    /\ UNCHANGED Shared

\* The two early returns, and clean_df.
CrossTabClean(t) ==
    /\ frames[t].op = "crosstab" /\ frames[t].pos = "called"
    /\ LET ovar == frames[t].args[1]
           ivar == frames[t].args[2]
       IN  IF ~HasColumn(df, ovar) \/ ~HasColumn(df, ivar)
           THEN frames' = [frames EXCEPT ![t].pos = "returned",
                                         ![t].result = None]
           ELSE IF Len(CleanRows(df, ovar, ivar)) = 0
           THEN frames' = [frames EXCEPT ![t].pos = "returned",
                                         ![t].result = None,
                                         ![t].clean_df = <<>>]
           ELSE frames' = [frames EXCEPT ![t].pos = "cleaned",
                                         ![t].clean_df =
                                             CleanRows(df, ovar, ivar)]
    /\ UNCHANGED Shared

\* The two tables, from clean_df.
CrossTabTabulate(t) ==
    /\ frames[t].op = "crosstab" /\ frames[t].pos = "cleaned"
    /\ LET ovar == frames[t].args[1]
           ivar == frames[t].args[2]
           clean_df == Local(frames, t).clean_df
       IN  frames' = [frames EXCEPT ![t].pos = "tabulated",
                                    ![t].crosstab =
                                        <<Crosstab(df, ovar, ivar, clean_df)>>,
                                    ![t].crosstab_pct =
                                        <<CrosstabPct(df, ovar, ivar, clean_df)>>]
    /\ UNCHANGED Shared

\* The statistical tests on the table, and the return of the result.
CrossTabReturn(t) ==
    /\ frames[t].op = "crosstab" /\ frames[t].pos = "tabulated"
    /\ LET my == Local(frames, t)
           tests == StatisticalTests(my.crosstab[1])
       IN  frames' = [frames EXCEPT ![t].pos = "returned",
                                    ![t].result =
                                        <<[crosstab |-> my.crosstab[1],
                                           percentages |-> my.crosstab_pct[1],
                                           chi2_stat |-> tests.chi2_stat,
                                           p_value |-> tests.p_value,
                                           cramers_v |-> tests.cramers_v,
                                           sample_size |-> Len(my.clean_df)]>>]
    /\ UNCHANGED Shared

NextConcurrent ==
    \E t \in Threads :
        \/ \E iset \in ConcurrentSets : CallDescriptiveStats(t, iset)
        \/ DescriptiveCompute(t)
        \/ DescriptiveReturn(t)
        \/ \E ovar \in OutcomeChoices, ivar \in IndependentChoices :
               CallCrossTabulation(t, ovar, ivar)
        \/ CrossTabClean(t)
        \/ CrossTabTabulate(t)
        \/ CrossTabReturn(t)

SpecConcurrent == InitConcurrent /\ [][NextConcurrent]_vars

\* The datasets of n rows given to filter_complete_surveys: a column of
\* answers, and before it a Progress column or none; every order of rows.
ProgressValues == <<100, 50>>

SurveyDatasets(n) ==
    LET answers == {CellsOver(BinaryValues)[k] :
                        k \in 1..Len(CellsOver(BinaryValues))}
        progress == {CellsOver(ProgressValues)[k] :
                         k \in 1..Len(CellsOver(ProgressValues))}
        answered(a) ==
            [name |-> Q9_HIV_Testing,
             dtype |-> DtypeOf("binary", a),
             values |-> a]
    IN  {<<answered(a)>> : a \in [1..n -> answers]}
        \cup {<<[name |-> Progress, dtype |-> DtypeOf("binary", p), values |-> p],
                answered(a)>> : p \in [1..n -> progress], a \in [1..n -> answers]}

InitFilter ==
    /\ df \in SurveyDatasets(FilterRows)
    /\ indicator_set = None
    /\ stats_results = <<>>
    /\ outcome_var = None
    /\ independent_var = None
    /\ xt_result = None
    /\ metrics = None
    /\ pc = "loaded"
    /\ frames = [t \in Threads |-> IdleFrame]
    /\ filtered = None

\* complete_df, excluded_count, total_surveys = filter_complete_surveys(df)
FilterCompleteSurveys ==
    /\ filtered' = <<filter_complete_surveys(df)>>
    /\ pc' = "filtered"
    /\ UNCHANGED <<df, indicator_set, stats_results, outcome_var,
                   independent_var, xt_result, metrics, frames>>

NextFilter == FilterCompleteSurveys

SpecFilter == InitFilter /\ [][NextFilter]_vars

\* ------------------------------------------------------------------------
\* Properties of calculate_descriptive_stats
\* ------------------------------------------------------------------------
\* A call of calculate_descriptive_stats has returned into stats_results.
Described == pc = "described"

\* The positions of the returned list.
Results == 1..Len(stats_results)

\* The positions of the results ranked together with result i: the results of
\* its category.
GroupOf(i) == {j \in Results : stats_results[j].category = stats_results[i].category}

\* The position in df.columns of the variable of result i: results are
\* computed in this order.
ComputedAt(i) ==
    CHOOSE k \in 1..Len(df) : df[k].name = stats_results[i].variable

\* The cells of the variable of result i.
CellsOf(i) == df[ComputedAt(i)].values

\* Result i has exactly the percentage k.
HasPercentage(i, k) ==
    stats_results[i].percentage.num = k * stats_results[i].percentage.den

\* C1: every returned result has concern level 'high' exactly when its
\* percentage is above 40, 'medium' exactly when it is above 25 and at most
\* 40, and 'low' exactly when it is at most 25, whichever of the four places
\* of the code built the result.
C1_ConcernBands ==
    Described =>
        \A i \in Results :
            LET r == stats_results[i]
                above40 == r.percentage.num > 40 * r.percentage.den
                above25 == r.percentage.num > 25 * r.percentage.den
            IN  /\ r.concern_level \in {"high", "medium", "low"}
                /\ r.concern_level = "high" <=> above40
                /\ r.concern_level = "medium" <=> (above25 /\ ~above40)
                /\ r.concern_level = "low" <=> ~above25

\* C1 witness: a categorical outcome at exactly 40 percent is medium, next to
\* a binary outcome at exactly 25 percent that is low.
C1_Witness ==
    /\ Described
    /\ \E i, j \in Results :
        /\ stats_results[i].type = "Categorical"
        /\ HasPercentage(i, 40) /\ stats_results[i].concern_level = "medium"
        /\ stats_results[j].type = "Binary"
        /\ HasPercentage(j, 25) /\ stats_results[j].concern_level = "low"

\* C2: within every ranked group of n results the ranks are exactly 1..n, each
\* held once; a result of greater percentage has the smaller rank; results of
\* equal percentage are ranked in the order they were computed in.
C2_Ranking ==
    Described =>
        \A i \in Results :
            /\ stats_results[i].rank \in 1..Cardinality(GroupOf(i))
            /\ \A j \in GroupOf(i) :
                LET ri == stats_results[i]
                    rj == stats_results[j]
                IN  /\ (i # j) => ri.rank # rj.rank
                    /\ FracGt(ri.percentage, rj.percentage) => ri.rank < rj.rank
                    /\ (FracEq(ri.percentage, rj.percentage)
                        /\ ComputedAt(i) < ComputedAt(j)) => ri.rank < rj.rank

\* C2 witness: a group of three results, the first two computed tied at a
\* percentage that lies below that of the third.
C2_Witness ==
    /\ Described
    /\ \E i, j, k \in Results :
        /\ GroupOf(i) = {i, j, k}
        /\ ComputedAt(i) < ComputedAt(j) /\ ComputedAt(j) < ComputedAt(k)
        /\ FracEq(stats_results[i].percentage, stats_results[j].percentage)
        /\ FracGt(stats_results[k].percentage, stats_results[i].percentage)
        /\ stats_results[k].rank = 1
        /\ stats_results[i].rank = 2
        /\ stats_results[j].rank = 3

\* C3: for set1 the rank of a result is one more than the number of results
\* of its own category that have a greater percentage, or the same percentage
\* and an earlier column; results of the other category do not count.
C3_Set1RankedPerCategory ==
    (Described /\ indicator_set = <<"set1">>) =>
        \A i \in Results :
            /\ stats_results[i].category \in
                   {"Service Disruptions", "Populations Most Affected"}
            /\ stats_results[i].rank = 1 + Cardinality(
                   {j \in GroupOf(i) :
                      \/ FracGt(stats_results[j].percentage,
                                stats_results[i].percentage)
                      \/ /\ FracEq(stats_results[j].percentage,
                                   stats_results[i].percentage)
                         /\ ComputedAt(j) < ComputedAt(i)})

\* C3 witness: a population result of rank 1 whose percentage lies below that
\* of both service results.
C3_Witness ==
    /\ Described /\ indicator_set = <<"set1">>
    /\ \E i, j, k \in Results :
        /\ stats_results[i].category = "Populations Most Affected"
        /\ stats_results[j].category = "Service Disruptions"
        /\ stats_results[k].category = "Service Disruptions"
        /\ j # k
        /\ FracGt(stats_results[j].percentage, stats_results[i].percentage)
        /\ FracGt(stats_results[k].percentage, stats_results[i].percentage)
        /\ stats_results[i].rank = 1

\* C4: a Binary result with at least one answer has total = the number of
\* non-missing cells of its column, positive = the number of cells equal to
\* 1, and percentage = 100 * positive / total; and every numeric column of
\* the dataset that has a result is reported as Binary.
C4_BinaryPrevalence ==
    Described =>
        \A i \in Results :
            LET r == stats_results[i]
                answered == {k \in 1..Len(CellsOf(i)) : CellsOf(i)[k] # NA}
                ones == {k \in 1..Len(CellsOf(i)) : CellsOf(i)[k] = <<1>>}
            IN  (df[ComputedAt(i)].dtype # "object" /\ answered # {}) =>
                    /\ r.type = "Binary"
                    /\ r.total = Cardinality(answered)
                    /\ r.positive = Cardinality(ones)
                    /\ r.percentage.num * r.total
                           = 100 * r.positive * r.percentage.den

\* C4 witness: three ones among five answers give positive 3, total 5,
\* percentage 60 and concern level high (the ratio of Scenario A).
C4_Witness ==
    /\ Described
    /\ \E i \in Results :
        /\ stats_results[i].type = "Binary"
        /\ stats_results[i].positive = 3
        /\ stats_results[i].total = 5
        /\ HasPercentage(i, 60)
        /\ stats_results[i].concern_level = "high"

\* The labels that count towards the percentage of a categorical outcome.
AdverseLabels == {concerning_values[k] : k \in 1..Len(concerning_values)}

\* C5: a Categorical result with at least one answer has percentage
\* = 100 * adverse_count / total, total being the number of non-missing cells
\* and adverse_count the number of cells that hold an adverse label; every
\* column of labels that has a result is reported as Categorical.
C5_CategoricalPrevalence ==
    Described =>
        \A i \in Results :
            LET r == stats_results[i]
                answered == {k \in 1..Len(CellsOf(i)) : CellsOf(i)[k] # NA}
                adverse == {k \in answered : Val(CellsOf(i)[k]) \in AdverseLabels}
            IN  (df[ComputedAt(i)].dtype = "object" /\ answered # {}) =>
                    /\ r.type = "Categorical"
                    /\ r.total = Cardinality(answered)
                    /\ r.percentage.num * r.total
                           = 100 * Cardinality(adverse) * r.percentage.den

\* C5 witness: a column with a missing cell in which two adverse labels and a
\* label that is not adverse are all observed; 3 of its 4 answers are adverse.
C5_Witness ==
    /\ Described
    /\ \E i \in Results :
        /\ stats_results[i].type = "Categorical"
        /\ {"Almost always", "Frequently", "Never"}
               \subseteq DOMAIN stats_results[i].categories
        /\ stats_results[i].total = 4
        /\ HasPercentage(i, 75)

\* C6: every returned result has a percentage between 0 and 100, and a total
\* equal to the number of non-missing cells of its column.
C6_PercentageRangeAndTotal ==
    Described =>
        \A i \in Results :
            LET r == stats_results[i]
            IN  /\ r.percentage.den > 0
                /\ r.percentage.num >= 0
                /\ r.percentage.num <= 100 * r.percentage.den
                /\ r.total = Cardinality({k \in 1..Len(CellsOf(i)) :
                                            CellsOf(i)[k] # NA})

\* C6 witness: a column with missing cells whose every answer counts, so that
\* its percentage is 100, next to a result of percentage 0 with answers.
C6_Witness ==
    /\ Described
    /\ \E i, j \in Results :
        /\ HasPercentage(i, 100)
        /\ stats_results[i].total \in 1..(NumRows - 1)
        /\ HasPercentage(j, 0)
        /\ stats_results[j].total > 0

\* C7: a result whose column has no non-missing cell has total 0, the
\* percentage 0 (a number, not the outcome of a division by zero) and concern
\* level 'low'.
C7_ZeroTotal ==
    Described =>
        \A i \in Results :
            (\A k \in 1..Len(CellsOf(i)) : CellsOf(i)[k] = NA) =>
                /\ stats_results[i].total = 0
                /\ stats_results[i].percentage.den > 0
                /\ stats_results[i].percentage.num = 0
                /\ stats_results[i].concern_level = "low"

\* C7 witness: a Binary and a Categorical result, both without any answer.
C7_Witness ==
    /\ Described
    /\ \E i, j \in Results :
        /\ stats_results[i].type = "Binary" /\ stats_results[i].total = 0
        /\ stats_results[j].type = "Categorical" /\ stats_results[j].total = 0

\* The columns of the model that each indicator set is meant to report.
ExpectedVariables(iset) ==
    CASE iset = <<"set1">> -> {Q9_HIV_Testing, Q9_HIV_Treatment,
                               Q10_Pop_Transgender, Q10_Pop_Older_Adults}
      [] iset \in {<<"set2">>, <<"set3">>} ->
             {Q23_Housing_Instability, Q27_Trans_Barrier_HIV_Testing,
              Q27_Trans_Barrier_Mental_Health}
      [] iset = <<"set4">> -> {Q13_Concern_Medicaid_Cuts}
      [] iset = <<"set5">> -> {Q18_Federal_Guidelines_Use,
                               Q19_Guidelines_Access_Delays}
      [] OTHER -> {}

\* The columns of df that the indicator set reports and that hold no answer.
UnansweredVariables ==
    {name \in ExpectedVariables(indicator_set) :
        /\ HasColumn(df, name)
        /\ \A k \in 1..Len(Col(df, name)) : Col(df, name)[k] = NA}

\* C8 as claimed: a variable of the dataset without any answer appears in the
\* output and has the last rank of its group, n of n.
C8_ZeroTotalRankedLast ==
    Described =>
        \A name \in UnansweredVariables :
            \E i \in Results :
                /\ stats_results[i].variable = name
                /\ stats_results[i].rank = Cardinality(GroupOf(i))

\* C8 amended: a variable of the dataset without any answer appears in the
\* output, ranked behind every result of its group that has a percentage
\* above 0 and behind the results of percentage 0 computed before it, and
\* ahead of the results of percentage 0 computed after it.
C8_ZeroTotalRankedAmongZeros ==
    Described =>
        \A name \in UnansweredVariables :
            \E i \in Results :
                /\ stats_results[i].variable = name
                /\ stats_results[i].rank = 1 + Cardinality(
                       {j \in GroupOf(i) :
                          \/ stats_results[j].percentage.num > 0
                          \/ /\ stats_results[j].percentage.num = 0
                             /\ ComputedAt(j) < ComputedAt(i)})

\* C8 witness: in a group of three, a variable without answers has rank 2,
\* behind a result above 0 and ahead of a later result of percentage 0.
C8_Witness ==
    /\ Described
    /\ \E i, j, k \in Results :
        /\ GroupOf(i) = {i, j, k}
        /\ stats_results[i].variable \in UnansweredVariables
        /\ stats_results[i].rank = 2
        /\ stats_results[j].rank = 1 /\ stats_results[j].percentage.num > 0
        /\ stats_results[k].rank = 3 /\ stats_results[k].total > 0

\* C9: every returned result is about a column of the dataset, and a variable
\* of the indicator set that is no column of the dataset has no result,
\* while one that is a column has exactly one.
C9_AbsentVariableSkipped ==
    Described =>
        /\ \A i \in Results : HasColumn(df, stats_results[i].variable)
        /\ \A name \in ExpectedVariables(indicator_set) :
               Cardinality({i \in Results : stats_results[i].variable = name})
                   = IF HasColumn(df, name) THEN 1 ELSE 0

\* C9 witness: set1 on a dataset without the column Q9_HIV_Testing returns
\* the result of Q9_HIV_Treatment and nothing else.
C9_Witness ==
    /\ Described /\ indicator_set = <<"set1">>
    /\ ~HasColumn(df, Q9_HIV_Testing)
    /\ Len(stats_results) = 1
    /\ stats_results[1].variable = Q9_HIV_Treatment

\* ------------------------------------------------------------------------
\* Properties of create_cross_tabulation
\* ------------------------------------------------------------------------
\* A call of create_cross_tabulation has returned into xt_result.
Tabulated == pc = "tabulated"

\* The variables the call was made with.
OVar == outcome_var[1]
IVar == independent_var[1]

\* Both variables of the call are columns of the dataset.
BothColumns == HasColumn(df, OVar) /\ HasColumn(df, IVar)

\* The rows of the dataset in which both variables are answered.
CompleteRows ==
    {k \in 1..NRows(df) : Col(df, OVar)[k] # NA /\ Col(df, IVar)[k] # NA}

\* C10: create_cross_tabulation returns None exactly when the outcome or the
\* independent variable is no column of the dataset or no row has both
\* answered; in every other case it returns a result with its six fields.
C10_NoResultCases ==
    Tabulated =>
        /\ xt_result = None <=> (~BothColumns \/ CompleteRows = {})
        /\ xt_result # None =>
               DOMAIN xt_result[1] = {"crosstab", "percentages", "chi2_stat",
                                      "p_value", "cramers_v", "sample_size"}

\* C10 witness: both variables are columns and each has answers, but no row
\* has both, and the call returns None.
C10_Witness ==
    /\ Tabulated /\ BothColumns
    /\ \E k \in 1..NRows(df) : Col(df, OVar)[k] # NA
    /\ \E k \in 1..NRows(df) : Col(df, IVar)[k] # NA
    /\ CompleteRows = {}
    /\ xt_result = None

\* The call returned a result, and the result.
HasResult == Tabulated /\ xt_result # None
XT == xt_result[1]

\* The labels of the rows and of the columns of the contingency table, as
\* positions, and its counts without the margins.
InnerRows == 1..Len(XT.crosstab.index)
InnerCols == 1..Len(XT.crosstab.columns)
RowTotal(i) == SeqSum([j \in InnerCols |-> XT.crosstab.values[i][j]])
ColTotal(j) == SeqSum([i \in InnerRows |-> XT.crosstab.values[i][j]])
InnerTotal == SeqSum([i \in InnerRows |-> RowTotal(i)])

\* C11: sample_size is the number of rows in which both variables are
\* answered, the sum of the inner cells of the contingency table, and its
\* bottom-right margin cell.
C11_SampleSize ==
    HasResult =>
        /\ XT.sample_size = Cardinality(CompleteRows)
        /\ XT.sample_size = InnerTotal
        /\ XT.sample_size =
               XT.crosstab.values[Len(XT.crosstab.index) + 1]
                                 [Len(XT.crosstab.columns) + 1]

\* C11 witness: a result over fewer rows than the dataset has, some rows
\* missing an answer, with at least two row and two column labels.
C11_Witness ==
    /\ HasResult
    /\ XT.sample_size < NRows(df)
    /\ XT.sample_size = Cardinality(CompleteRows)
    /\ Len(XT.crosstab.index) >= 2
    /\ Len(XT.crosstab.columns) >= 2

\* The values a variable takes on the rows in which both are answered.
ObservedLabels(name) == {Val(Col(df, name)[k]) : k \in CompleteRows}

\* The sequence lists the members of the set, each once.
Lists(seq, S) ==
    /\ {seq[i] : i \in 1..Len(seq)} = S
    /\ Len(seq) = Cardinality(S)

\* C12: the contingency table has one row per observed label of the
\* independent variable and one column per observed label of the outcome
\* variable, each inner cell the number of rows with its two labels, and one
\* margin row and one margin column: the margin-column cell of a row is the sum
\* of the row, the margin-row cell of a column is the sum of the column, and
\* the bottom-right cell is the grand total.
C12_ContingencyTable ==
    HasResult =>
        LET index == XT.crosstab.index
            columns == XT.crosstab.columns
            values == XT.crosstab.values
        IN  /\ Lists(index, ObservedLabels(IVar))
            /\ Lists(columns, ObservedLabels(OVar))
            /\ Len(values) = Len(index) + 1
            /\ \A i \in 1..Len(values) : Len(values[i]) = Len(columns) + 1
            /\ \A i \in InnerRows, j \in InnerCols :
                   values[i][j] =
                       Cardinality({k \in CompleteRows :
                                       /\ Val(Col(df, IVar)[k]) = index[i]
                                       /\ Val(Col(df, OVar)[k]) = columns[j]})
            /\ \A i \in InnerRows : values[i][Len(columns) + 1] = RowTotal(i)
            /\ \A j \in InnerCols : values[Len(index) + 1][j] = ColTotal(j)
            /\ values[Len(index) + 1][Len(columns) + 1] = InnerTotal

\* C12 witness: a table of three rows and two columns whose row sums differ
\* and whose column sums differ, with an empty inner cell.
C12_Witness ==
    /\ HasResult
    /\ Len(XT.crosstab.index) = 3
    /\ Len(XT.crosstab.columns) = 2
    /\ XT.crosstab.values[1][3] # XT.crosstab.values[2][3]
    /\ XT.crosstab.values[4][1] # XT.crosstab.values[4][2]
    /\ \E i \in InnerRows, j \in InnerCols : XT.crosstab.values[i][j] = 0

\* C13: every row of the percentage table sums to 100.
C13_PercentageRowsSumTo100 ==
    HasResult =>
        \A i \in 1..Len(XT.percentages.values) :
            FracEq(FracSum(XT.percentages.values[i]), Frac(100, 1))

\* C13 witness: a percentage table of two rows or more, one of them a row of
\* three answers spread over three columns, each a third of the row.
C13_Witness ==
    /\ HasResult
    /\ Len(XT.percentages.values) >= 2
    /\ \E i \in 1..Len(XT.percentages.values) :
           /\ Len(XT.percentages.values[i]) = 3
           /\ \A j \in 1..3 : XT.percentages.values[i][j] = Frac(100, 3)

\* C14: the percentage table has the row labels and the column labels of the
\* inner contingency table and no margins, and each cell is the count of the
\* cell divided by the total of its row, times 100.
C14_PercentageTable ==
    HasResult =>
        LET pct == XT.percentages
        IN  /\ pct.index = XT.crosstab.index
            /\ pct.columns = XT.crosstab.columns
            /\ Len(pct.values) = Len(pct.index)
            /\ \A i \in InnerRows :
                   /\ Len(pct.values[i]) = Len(pct.columns)
                   /\ RowTotal(i) > 0
                   /\ \A j \in InnerCols :
                          /\ pct.values[i][j].den > 0
                          /\ pct.values[i][j].num * RowTotal(i) =
                                 100 * XT.crosstab.values[i][j] * pct.values[i][j].den

\* C14 witness: a table whose rows have different totals, with a cell that is
\* half of its row but not half of its column.
C14_Witness ==
    /\ HasResult
    /\ \E i \in InnerRows, j \in InnerCols :
           /\ FracEq(XT.percentages.values[i][j], Frac(50, 1))
           /\ 2 * XT.crosstab.values[i][j] # ColTotal(j)
    /\ \E i, k \in InnerRows : RowTotal(i) # RowTotal(k)

\* The inner contingency table has fewer than two rows or fewer than two
\* columns.
Degenerate == Len(XT.crosstab.index) < 2 \/ Len(XT.crosstab.columns) < 2

\* C15: when the inner table has fewer than two row labels or fewer than two
\* column labels, chi2_stat, p_value and cramers_v are all None, while both
\* tables are populated and sample_size is the number of rows in which both
\* variables are answered.
C15_DegenerateTable ==
    (HasResult /\ Degenerate) =>
        /\ XT.chi2_stat = None
        /\ XT.p_value = None
        /\ XT.cramers_v = None
        /\ Len(XT.crosstab.index) >= 1 /\ Len(XT.crosstab.columns) >= 1
        /\ Len(XT.crosstab.values) = Len(XT.crosstab.index) + 1
        /\ Len(XT.percentages.values) = Len(XT.crosstab.index)
        /\ \A i \in InnerRows :
               Len(XT.percentages.values[i]) = Len(XT.crosstab.columns)
        /\ XT.sample_size = Cardinality(CompleteRows)
        /\ XT.sample_size > 0

\* C15 witness: every complete row has the same outcome, under two or more
\* labels of the independent variable, and the statistics are None.
C15_Witness ==
    /\ HasResult
    /\ Len(XT.crosstab.index) >= 2
    /\ Len(XT.crosstab.columns) = 1
    /\ XT.sample_size >= 2
    /\ XT.chi2_stat = None /\ XT.cramers_v = None

\* C16: cramers_v is None whenever the inner table has one row or one column;
\* with two rows and two columns or more it is a non-negative number.
C16_CramersVAvailability ==
    HasResult =>
        IF Degenerate THEN XT.cramers_v = None
        ELSE /\ XT.cramers_v # None
             /\ XT.cramers_v[1].sqrt.den > 0
             /\ XT.cramers_v[1].sqrt.num >= 0

\* C16 witness: a table of two rows and two columns or more with an empty
\* cell, for which cramers_v is a positive number.
C16_Witness ==
    /\ HasResult
    /\ ~Degenerate
    /\ \E i \in InnerRows, j \in InnerCols : XT.crosstab.values[i][j] = 0
    /\ XT.cramers_v # None
    /\ XT.cramers_v[1].sqrt.num > 0

\* C17: whenever chi2_stat is available, cramers_v is the square root of
\* chi2_stat / (n * (min(rows, cols) - 1)) with n the sum of the inner cells,
\* and the divisor is not zero.
C17_CramersVFormula ==
    (HasResult /\ XT.chi2_stat # None) =>
        LET rows == Len(XT.crosstab.index)
            cols == Len(XT.crosstab.columns)
            divisor == InnerTotal * ((IF rows <= cols THEN rows ELSE cols) - 1)
        IN  /\ divisor > 0
            /\ XT.cramers_v # None
            /\ XT.cramers_v[1].sqrt.den > 0
            /\ Reduced(XT.cramers_v[1].sqrt.num, XT.cramers_v[1].sqrt.den) =
                   Reduced(XT.chi2_stat[1].num, XT.chi2_stat[1].den * divisor)

\* C17 witness: a table of three rows and two columns with a positive
\* statistic.
C17_Witness ==
    /\ HasResult
    /\ Len(XT.crosstab.index) = 3
    /\ Len(XT.crosstab.columns) = 2
    /\ XT.chi2_stat # None
    /\ XT.chi2_stat[1].num > 0
    /\ XT.cramers_v # None

\* Scenario B: ten respondents, five of the first role, all with outcome 1,
\* and five of the second, all with outcome 0, cross-tabulated by role.
ScenarioB ==
    /\ Tabulated
    /\ IVar = Q2_Professional_Role /\ OVar = Q9_HIV_Testing
    /\ df = <<[name |-> Q2_Professional_Role,
               dtype |-> "object",
               values |-> Repeat(<<RoleLabels[1]>>, 5) \o Repeat(<<RoleLabels[2]>>, 5)],
              [name |-> Q9_HIV_Testing,
               dtype |-> "int64",
               values |-> Repeat(<<1>>, 5) \o Repeat(<<0>>, 5)]>>

\* The inner table of the result.
InnerTable ==
    [i \in InnerRows |-> [j \in InnerCols |-> XT.crosstab.values[i][j]]]

\* C18: in Scenario B the inner contingency table is [[5,0],[0,5]] up to the
\* order of the labels, p_value is below 0.05, and cramers_v is close to 1.0:
\* at least 0.9, its square at least 0.81.
C18_ScenarioB ==
    ScenarioB =>
        /\ xt_result # None
        /\ InnerTable \in {<<<<5, 0>>, <<0, 5>>>>, <<<<0, 5>>, <<5, 0>>>>}
        /\ XT.p_value # None
        /\ PValueBelow005(XT.p_value[1])
        /\ XT.cramers_v # None
        /\ XT.cramers_v[1].sqrt.num * 100 >= 81 * XT.cramers_v[1].sqrt.den

\* C18 witness: in Scenario B the table is [[0,5],[5,0]], the statistic is
\* 32/5 = 6.4 after the continuity correction, p_value is below 0.05, and
\* cramers_v is the square root of 16/25: 0.8.
C18_Witness ==
    /\ ScenarioB
    /\ xt_result # None
    /\ InnerTable = <<<<0, 5>>, <<5, 0>>>>
    /\ XT.chi2_stat = <<Frac(32, 5)>>
    /\ PValueBelow005(XT.p_value[1])
    /\ XT.cramers_v = <<[sqrt |-> Frac(16, 25)]>>

\* C19: the statistical test never makes the call fail: when both variables
\* are columns of the dataset the call returns None or a result with all six
\* fields, its two tables populated, and each statistic either None or a
\* value.
C19_NoFailurePropagates ==
    (Tabulated /\ BothColumns) =>
        \/ xt_result = None
        \/ /\ Len(xt_result) = 1
           /\ DOMAIN xt_result[1] = {"crosstab", "percentages", "chi2_stat",
                                     "p_value", "cramers_v", "sample_size"}
           /\ Len(XT.crosstab.values) >= 2
           /\ Len(XT.percentages.values) >= 1
           /\ XT.sample_size \in 1..NRows(df)
           /\ \A stat \in {XT.chi2_stat, XT.p_value, XT.cramers_v} :
                  stat = None \/ Len(stat) = 1

\* C19 witness: both variables are columns, some rows miss an answer, and the
\* test ran on a table of two rows and three columns with three empty cells;
\* the result has its statistics.
C19_Witness ==
    /\ Tabulated /\ BothColumns
    /\ xt_result # None
    /\ CompleteRows # 1..NRows(df)
    /\ Len(XT.crosstab.index) = 2 /\ Len(XT.crosstab.columns) = 3
    /\ Cardinality({<<i, j>> \in InnerRows \X InnerCols :
                       XT.crosstab.values[i][j] = 0}) = 3
    /\ XT.chi2_stat # None /\ XT.p_value # None /\ XT.cramers_v # None

DescriptiveCall == pc \in {"described", "described again"}
CrossTabCall == pc \in {"tabulated", "tabulated again"}

C22_InterleavedCalls ==
    \A t \in Threads :
        frames[t].pos = "returned" =>
            IF frames[t].op = "descriptive"
            THEN frames[t].result =
                     calculate_descriptive_stats(df, frames[t].args[1])
            ELSE frames[t].result =
                     create_cross_tabulation(df, frames[t].args[1],
                                             frames[t].args[2])

\* C22 witness: both threads are in a call at once: one has computed a
\* non-empty list and not yet ranked it, the other has built its tables and
\* not yet run the tests.
C22_Witness ==
    \E t, u \in Threads :
        /\ frames[t].op = "descriptive" /\ frames[t].pos = "computed"
        /\ frames[t].stats_results # <<>>
        /\ frames[u].op = "crosstab" /\ frames[u].pos = "tabulated"

\* C23: every result carries variable, name, category, type, total,
\* percentage, concern_level and rank; a Binary result carries a positive
\* count and no categories map, a Categorical result a categories map and no
\* positive count, and there is no other type.
C23_ResultFields ==
    Described =>
        \A i \in Results :
            LET fields == DOMAIN stats_results[i]
            IN  /\ {"variable", "name", "category", "type", "total",
                    "percentage", "concern_level", "rank"} \subseteq fields
                /\ stats_results[i].type \in {"Binary", "Categorical"}
                /\ "positive" \in fields <=> stats_results[i].type = "Binary"
                /\ "categories" \in fields <=>
                       stats_results[i].type = "Categorical"

\* C23 witness: a returned list with a Binary and a Categorical result.
C23_Witness ==
    /\ Described
    /\ \E i, j \in Results :
           /\ stats_results[i].type = "Binary"
           /\ "positive" \in DOMAIN stats_results[i]
           /\ stats_results[j].type = "Categorical"
           /\ "categories" \in DOMAIN stats_results[j]

\* C24: in every returned result chi2_stat, p_value and cramers_v are None
\* together or not None together.
C24_StatisticsTogether ==
    HasResult =>
        /\ XT.chi2_stat = None <=> XT.p_value = None
        /\ XT.p_value = None <=> XT.cramers_v = None

\* C24 witness: a result whose statistic is zero, with its p_value and its
\* cramers_v.
C24_Witness ==
    /\ HasResult
    /\ XT.chi2_stat = <<Frac(0, 1)>>
    /\ XT.p_value # None
    /\ XT.cramers_v # None

C26_ViewPreservesFields ==
    HasResult =>
        /\ metrics # None
        /\ metrics[1].chi_square = NotAvailable <=> XT.chi2_stat = None
        /\ XT.chi2_stat # None =>
               metrics[1].chi_square = Formatted(XT.chi2_stat[1])
        /\ metrics[1].cramers_v = NotAvailable <=> XT.cramers_v = None
        /\ XT.cramers_v # None =>
               metrics[1].cramers_v = Formatted(XT.cramers_v[1])

\* C26 witness: the result has a statistic of zero and a cramers_v of zero;
\* the view shows 'N/A' for both and the number for P-Value.
C26_Witness ==
    /\ HasResult
    /\ XT.chi2_stat = <<Frac(0, 1)>>
    /\ XT.cramers_v = <<[sqrt |-> Frac(0, 1)]>>
    /\ metrics # None
    /\ metrics[1].chi_square = NotAvailable
    /\ metrics[1].cramers_v = NotAvailable
    /\ metrics[1].p_value = Formatted(XT.p_value[1])

\* C27: the returned list is in rank order.  For sets 2 to 5 the result at
\* position i (from 1) has rank i.  For set1 the list is the Service
\* Disruptions results in ascending rank from 1, followed by the Populations
\* Most Affected results in ascending rank from 1.
C27_ListInRankOrder ==
    Described =>
        IF indicator_set = <<"set1">>
        THEN LET services ==
                     Cardinality({i \in Results :
                         stats_results[i].category = "Service Disruptions"})
             IN  \A i \in Results :
                     IF i <= services
                     THEN /\ stats_results[i].category = "Service Disruptions"
                          /\ stats_results[i].rank = i
                     ELSE /\ stats_results[i].category =
                                 "Populations Most Affected"
                          /\ stats_results[i].rank = i - services
        ELSE \A i \in Results : stats_results[i].rank = i

\* C27 witness: for set1, two services and a population, the population of
\* the greatest percentage and last in the list with rank 1; the service
\* computed second is first in the list.
C27_Witness ==
    /\ Described /\ indicator_set = <<"set1">>
    /\ Len(stats_results) = 3
    /\ stats_results[1].category = "Service Disruptions"
    /\ stats_results[2].category = "Service Disruptions"
    /\ stats_results[3].category = "Populations Most Affected"
    /\ stats_results[3].rank = 1
    /\ FracGt(stats_results[3].percentage, stats_results[1].percentage)
    /\ ComputedAt(2) < ComputedAt(1)

\* The severity of a concern level: high above medium above low.
Severity(level) ==
    CASE level = "high" -> 3
      [] level = "medium" -> 2
      [] level = "low" -> 1

\* C28: within a ranked group the concern level is monotone in the rank: a
\* result of smaller rank has a concern level at least as severe.
C28_ConcernMonotoneInRank ==
    Described =>
        \A i \in Results :
            \A j \in GroupOf(i) :
                stats_results[i].rank < stats_results[j].rank =>
                    Severity(stats_results[i].concern_level) >=
                        Severity(stats_results[j].concern_level)

\* C28 witness: a group of three results of ranks 1, 2 and 3 with concern
\* levels high, medium and low, the one of rank 1 with the fewest responses.
C28_Witness ==
    /\ Described
    /\ \E i, j, k \in Results :
        /\ GroupOf(i) = {i, j, k}
        /\ stats_results[i].rank = 1 /\ stats_results[i].concern_level = "high"
        /\ stats_results[j].rank = 2 /\ stats_results[j].concern_level = "medium"
        /\ stats_results[k].rank = 3 /\ stats_results[k].concern_level = "low"
        /\ stats_results[i].total < stats_results[j].total
        /\ stats_results[i].total < stats_results[k].total

\* The sum of the values of a map over the keys S.
RECURSIVE SumOver(_, _)
SumOver(f, S) ==
    IF S = {} THEN 0
    ELSE LET x == CHOOSE x \in S : TRUE
         IN  f[x] + SumOver(f, S \ {x})

\* C29: the categories map of a Categorical result has exactly the labels
\* that some respondent gave for the variable, each mapped to the number of
\* respondents who gave it, which is at least 1; missing values are not
\* counted, and the counts sum to the total of the result.
C29_CategoriesMap ==
    Described =>
        \A i \in Results :
            stats_results[i].type = "Categorical" =>
                LET cells == CellsOf(i)
                    categories == stats_results[i].categories
                    answered == {k \in 1..Len(cells) : cells[k] # NA}
                IN  /\ DOMAIN categories = {Val(cells[k]) : k \in answered}
                    /\ \A l \in DOMAIN categories :
                           /\ categories[l] =
                                  Cardinality({k \in answered : Val(cells[k]) = l})
                           /\ categories[l] >= 1
                    /\ SumOver(categories, DOMAIN categories) =
                           stats_results[i].total
                    /\ stats_results[i].total = Cardinality(answered)

\* C29 witness: a Categorical result over a column with missing values whose
\* map has two labels, one given by two respondents or more.
C29_Witness ==
    /\ Described
    /\ \E i \in Results :
        /\ stats_results[i].type = "Categorical"
        /\ Cardinality(DOMAIN stats_results[i].categories) = 2
        /\ \E l \in DOMAIN stats_results[i].categories :
               stats_results[i].categories[l] >= 2
        /\ \E k \in 1..Len(CellsOf(i)) : CellsOf(i)[k] = NA

\* ------------------------------------------------------------------------
\* Properties of filter_complete_surveys
\* ------------------------------------------------------------------------
\* A call of filter_complete_surveys has returned into filtered.
Filtered == pc = "filtered"

\* The values of a column at the rows whose Progress is 100, in order.
RECURSIVE Kept(_, _)
Kept(values, progress) ==
    IF values = <<>> THEN <<>>
    ELSE (IF Head(progress) = <<100>> THEN <<Head(values)>> ELSE <<>>)
         \o Kept(Tail(values), Tail(progress))

\* C30: filter_complete_surveys partitions its input.  With a Progress column
\* it returns the rows whose Progress is 100, in their order, and
\* len(complete) + excluded_count = total = the number of rows of the input;
\* without one it returns the dataset unchanged, excluded_count = 0 and total
\* the number of rows.
C30_FilterPartitions ==
    Filtered =>
        LET out == filtered[1]
        IN  /\ out.total = NRows(df)
            /\ NRows(out.complete_df) + out.excluded_count = out.total
            /\ IF HasColumn(df, Progress)
               THEN /\ Len(out.complete_df) = Len(df)
                    /\ \A c \in 1..Len(df) :
                           /\ out.complete_df[c].name = df[c].name
                           /\ out.complete_df[c].values =
                                  Kept(df[c].values, Col(df, Progress))
               ELSE /\ out.complete_df = df
                    /\ out.excluded_count = 0

\* C30 witness: three surveys, the first and the last complete with different
\* answers, the second with no Progress; the two complete ones are returned
\* in their order and one is excluded.
C30_Witness ==
    /\ Filtered
    /\ HasColumn(df, Progress)
    /\ Col(df, Progress) = <<<<100>>, NA, <<100>>>>
    /\ Col(df, Q9_HIV_Testing)[1] # Col(df, Q9_HIV_Testing)[3]
    /\ Col(filtered[1].complete_df, Q9_HIV_Testing) =
           <<Col(df, Q9_HIV_Testing)[1], Col(df, Q9_HIV_Testing)[3]>>
    /\ filtered[1].excluded_count = 1
    /\ filtered[1].total = 3

====
